---------------------------- MODULE Spec2Model ----------------------------
(***************************************************************************)
(* Real-time container log streaming of                                    *)
(* pkg/microservice/aslan/core/log/service/sse.go.                         *)
(*                                                                         *)
(* Strings are sequences of one-character strings, so that trimming,       *)
(* splitting and prefix/suffix handling are computed and not assumed.      *)
(***************************************************************************)
EXTENDS Integers, Sequences, FiniteSets, TLC

VARIABLES
    pc,          \* position of the session's goroutine
    exit,        \* which return statement ended the session ("none" while running)
    ctxDone,     \* the caller's context is done
    podCtxDone,  \* the 5 minute deadline of PodCtx (line 305) has elapsed
    podRunning,  \* a pod matching the selector has reached the running phase
    env,         \* what the orchestration API answers in this session
    source,      \* the bytes the log handle will deliver
    srcEnd,      \* what the handle reports once source is exhausted: "EOF" or "ERR"
    pos,         \* number of bytes of source already consumed by buf.ReadString
    line,        \* the local variable line of containerLogStream
    calls,       \* collaborator calls made by the session, in order
    openArgs,    \* arguments of the GetContainerLogStream call
    pushed,      \* every value sent on streamChan, in order
    chanLen,     \* values sitting in streamChan, not yet received
    consumerOn,  \* the consumer of streamChan is still receiving
    lateRead,    \* a ReadString was started when ctx was already done
    latePush,    \* a value was sent on streamChan when ctx was already done
    lateExpiry,  \* the pod-wait deadline elapsed while the read/push loop ran
    entry,       \* the entry point the caller invoked
    options,     \* the caller's *GetContainerOptions (Nil for a nil pointer)
    store,       \* the records of the metadata store
    selector,    \* the label selector handed to waitAndGetLog
    round,       \* how many times the caller has invoked the entry point on options
    snap,        \* ClusterID and Namespace of options: as given, then after each resolution
    given,       \* options as the caller handed them to the entry point this round
    fnPc,        \* "call" before and "ret" after the call of a name helper
    fnIn,        \* the arguments of the call
    fnOut        \* its result

streamVars == <<pc, exit, ctxDone, podCtxDone, podRunning, env, source, srcEnd, pos,
                line, calls, openArgs, pushed, chanLen, consumerOn, lateRead,
                latePush, lateExpiry>>

resolveVars == <<entry, options, store, selector, round, snap, given>>

parseVars == <<fnPc, fnIn, fnOut>>

vars == <<streamVars, resolveVars, parseVars>>

-----------------------------------------------------------------------------
(* Bounds of the model *)

\* longest log source, in bytes
MaxSrc == 4
\* most jobs in a workflow task record
MaxJobs == 3
\* most stages in a workflow task record
MaxStages == 2
\* longest service name, module name or job label given to the name helpers
MaxName == 4
\* capacity of the caller's streamChan
SinkCap == 1

-----------------------------------------------------------------------------
(* Strings *)

Strings(alphabet, n) == UNION {[1..k -> alphabet] : k \in 0..n}

Count(seq, x) == Cardinality({i \in 1..Len(seq) : seq[i] = x})

Min(S) == CHOOSE x \in S : \A y \in S : x <= y
Max(S) == CHOOSE x \in S : \A y \in S : x >= y

NL == "\n"

\* unicode.IsSpace restricted to the bytes of the model's alphabets
IsSpace(c) == c \in {" ", NL}

RECURSIVE TrimLeftSpace(_)
TrimLeftSpace(s) ==
    IF s = <<>> THEN s
    ELSE IF IsSpace(Head(s)) THEN TrimLeftSpace(Tail(s)) ELSE s

RECURSIVE TrimRightSpace(_)
TrimRightSpace(s) ==
    IF s = <<>> THEN s
    ELSE IF IsSpace(s[Len(s)]) THEN TrimRightSpace(SubSeq(s, 1, Len(s) - 1)) ELSE s

\* a plausible slip: strings.TrimRight(line, "\n") instead of strings.TrimSpace
TrimNewlineOnly(s) ==
    IF s # <<>> /\ s[Len(s)] = NL THEN SubSeq(s, 1, Len(s) - 1) ELSE s

\* strings.TrimSpace
TrimSpace(s) == TrimLeftSpace(TrimRightSpace(s))

\* index of the first delim in s at or after position from + 1, 0 if none
IndexFrom(s, from, delim) ==
    IF \E i \in (from + 1)..Len(s) : s[i] = delim
    THEN CHOOSE i \in (from + 1)..Len(s) :
            s[i] = delim /\ \A j \in (from + 1)..(i - 1) : s[j] # delim
    ELSE 0

\* bufio.Reader.ReadString('\n') on a handle that still has to deliver the bytes
\* of s after position from: the bytes up to and including the delimiter and a
\* nil error, or the remaining bytes and the handle's error.
ReadString(s, from, end) ==
    LET i == IndexFrom(s, from, NL) IN
    IF i > 0
    THEN [line |-> SubSeq(s, from + 1, i), err |-> "nil", pos |-> i]
    ELSE [line |-> SubSeq(s, from + 1, Len(s)), err |-> end, pos |-> Len(s)]

\* strings.HasPrefix
HasPrefix(s, p) == Len(p) <= Len(s) /\ SubSeq(s, 1, Len(p)) = p

\* strings.TrimPrefix
TrimPrefix(s, p) == IF HasPrefix(s, p) THEN SubSeq(s, Len(p) + 1, Len(s)) ELSE s

\* strings.TrimRight: drops every trailing byte that occurs in cutset
RECURSIVE TrimRight(_, _)
TrimRight(s, cutset) ==
    IF s # <<>> /\ \E i \in 1..Len(cutset) : cutset[i] = s[Len(s)]
    THEN TrimRight(SubSeq(s, 1, Len(s) - 1), cutset)
    ELSE s

\* strings.Split with a one-byte separator: always at least one segment
RECURSIVE Split(_, _)
Split(s, sep) ==
    LET i == IndexFrom(s, 0, sep) IN
    IF i = 0 THEN <<s>>
    ELSE <<SubSeq(s, 1, i - 1)>> \o Split(SubSeq(s, i + 1, Len(s)), sep)

\* strings.Replace(s, old, new, -1) for one-byte old and new
ReplaceAll(s, old, new) == [i \in 1..Len(s) |-> IF s[i] = old THEN new ELSE s[i]]

-----------------------------------------------------------------------------
(* The name helpers *)

\* a plausible slip: the legacy split is applied although a module was passed
ParseIgnoringModule(fullServiceName, serviceModule) ==
    LET serviceNames == Split(fullServiceName, "_") IN
    IF Len(serviceNames) = 2 THEN <<serviceNames[2], serviceNames[1]>>
    ELSE IF Len(serviceNames) = 1 THEN <<<<>>, serviceNames[1]>>
    ELSE <<<<>>, <<>>>>

\* a plausible slip: the second segment is taken also with three and more
ParseAnyCount(fullServiceName, serviceModule) ==
    IF Len(serviceModule) > 0
    THEN <<TrimPrefix(fullServiceName, serviceModule \o <<"_">>), serviceModule>>
    ELSE LET serviceNames == Split(fullServiceName, "_") IN
         IF Len(serviceNames) = 1 THEN <<<<>>, serviceNames[1]>>
         ELSE <<serviceNames[2], serviceNames[1]>>

\* parseServiceName: <<serviceName, serviceModule>>
parseServiceName(fullServiceName, serviceModule) ==
    IF Len(serviceModule) > 0
    THEN <<TrimPrefix(fullServiceName, serviceModule \o <<"_">>), serviceModule>>
    ELSE LET serviceNames == Split(fullServiceName, "_") IN
         IF Len(serviceNames) = 1 THEN <<<<>>, serviceNames[1]>>
         ELSE IF Len(serviceNames) = 2 THEN <<serviceNames[2], serviceNames[1]>>
         ELSE <<<<>>, <<>>>>

JobSuffix == <<"-", "j", "o", "b">>

\* getTestName
getTestName(serviceName) == TrimRight(serviceName, JobSuffix)

-----------------------------------------------------------------------------
(* waitAndGetLog and containerLogStream *)

LogAlphabet == {"a", " ", NL}

Pods == {<<>>, <<"pod-b">>, <<"pod-a", "pod-b">>}

NoErrEnv(pods) ==
    [clientErr |-> FALSE, waitErr |-> FALSE, kubeErr |-> FALSE, listErr |-> FALSE,
     openErr |-> FALSE, pods |-> pods]

\* the answers of the orchestration API: everything works, or one call fails
Envs ==
    {NoErrEnv(p) : p \in Pods}
    \cup {[NoErrEnv(<<"pod-a">>) EXCEPT ![f] = TRUE] :
            f \in {"clientErr", "waitErr", "kubeErr", "listErr", "openErr"}}

StreamPcs == {"select", "read", "push", "pushEOF"}

\* a return statement of waitAndGetLog, or of containerLogStream before the
\* handle is open: nothing is deferred but PodCtx's cancel
Return(reason) ==
    /\ pc' = "done"
    /\ exit' = reason

\* a plausible slip: break in place of return, which leaves only the select
BreakSelect(reason) ==
    /\ pc' = "select"
    /\ exit' = reason
    /\ calls' = calls

\* a plausible slip: a return path that does not release the handle
ReturnNoClose(reason) ==
    /\ Return(reason)
    /\ calls' = calls

\* a return statement of containerLogStream after line 91: the deferred
\* function closes the handle
ReturnClose(reason) ==
    /\ Return(reason)
    /\ calls' = Append(calls, "Close")

\* lines 305-315: derive PodCtx, resolve the clientset, start the pod wait
GetClientset ==
    /\ pc = "waitAndGetLog"
    /\ IF env.clientErr
       THEN /\ Return("clientErr")
            /\ calls' = Append(calls, "GetClientset")
       ELSE /\ pc' = "waitPod"
            /\ calls' = calls \o <<"GetClientset", "WaitUntilPodRunning">>
            /\ exit' = exit
    /\ UNCHANGED <<ctxDone, podCtxDone, podRunning, env, source, srcEnd, pos, line,
                   openArgs, pushed, chanLen, consumerOn, lateRead, latePush,
                   lateExpiry, resolveVars, parseVars>>

\* watcher.WaitUntilPodRunning returns nil: a matching pod is running
WaitPodOK ==
    /\ pc = "waitPod"
    /\ podRunning
    /\ ~env.waitErr
    /\ pc' = "listPods"
    /\ UNCHANGED <<exit, ctxDone, podCtxDone, podRunning, env, source, srcEnd, pos,
                   line, calls, openArgs, pushed, chanLen, consumerOn, lateRead,
                   latePush, lateExpiry, resolveVars, parseVars>>

\* a plausible slip: the error of the wait is logged and the code goes on
IgnoreWaitErr ==
    /\ pc' = "listPods"
    /\ exit' = exit

\* lines 316-319: a failed wait is logged and waitAndGetLog returns
OnWaitErr ==
    Return("waitErr")

\* watcher.WaitUntilPodRunning returns an error: PodCtx is done (the caller's
\* context is done or the deadline elapsed) or the API failed
WaitPodFail ==
    /\ pc = "waitPod"
    /\ ctxDone \/ podCtxDone \/ env.waitErr
    /\ OnWaitErr
    /\ UNCHANGED <<ctxDone, podCtxDone, podRunning, env, source, srcEnd, pos,
                   line, calls, openArgs, pushed, chanLen, consumerOn, lateRead,
                   latePush, lateExpiry, resolveVars, parseVars>>

\* lines 321-346: kube client, pod listing, and the call of containerLogStream
\* for the first pod up to its GetContainerLogStream (lines 79-85)
\* a plausible slip: the last pod of the listing
LastPod(pods) == pods[Len(pods)]

\* line 337: pods[0]
FirstPod(pods) == pods[1]

ListPods ==
    /\ pc = "listPods"
    /\ IF env.kubeErr
       THEN /\ Return("kubeErr")
            /\ calls' = Append(calls, "GetKubeClient")
            /\ openArgs' = openArgs
       ELSE IF env.listErr
       THEN /\ Return("listErr")
            /\ calls' = calls \o <<"GetKubeClient", "ListPods">>
            /\ openArgs' = openArgs
       ELSE IF Len(env.pods) = 0
       THEN /\ Return("noPods")
            /\ calls' = calls \o <<"GetKubeClient", "ListPods">>
            /\ openArgs' = openArgs
       ELSE /\ openArgs' = [namespace |-> options.Namespace,
                            pod |-> FirstPod(env.pods),
                            container |-> options.SubTask]
            /\ calls' = calls \o <<"GetKubeClient", "ListPods", "GetContainerLogStream">>
            /\ IF env.openErr
               THEN Return("openErr")
               ELSE pc' = "select" /\ exit' = exit
    /\ UNCHANGED <<ctxDone, podCtxDone, podRunning, env, source, srcEnd, pos, line,
                   pushed, chanLen, consumerOn, lateRead, latePush, lateExpiry,
                   resolveVars, parseVars>>

\* a plausible slip: PodCtx handed to containerLogStream
PodCtxDone == ctxDone \/ podCtxDone

\* line 337 hands ctx, not PodCtx, to containerLogStream: the context of lines
\* 81 and 97 is done when the caller's is
StreamCtxDone == ctxDone

\* lines 95-101: the select; ctx.Done() wins when it is ready, otherwise the
\* default branch calls buf.ReadString, which blocks until the handle answers
SelectCtx ==
    /\ pc = "select"
    /\ IF StreamCtxDone
       THEN /\ ReturnClose("cancelled")
            /\ lateRead' = lateRead
       ELSE /\ pc' = "read"
            /\ lateRead' = (lateRead \/ ctxDone)
            /\ UNCHANGED <<exit, calls>>
    /\ UNCHANGED <<ctxDone, podCtxDone, podRunning, env, source, srcEnd, pos, line,
                   openArgs, pushed, chanLen, consumerOn, latePush, lateExpiry,
                   resolveVars, parseVars>>

\* a plausible slip: the final flush under "err != nil"
AnyError(err) == err # "nil"

\* line 106: err == io.EOF
IsEOF(err) == err = "EOF"

\* lines 101-118: buf.ReadString returns; the three tests on err
ReadReturn ==
    /\ pc = "read"
    /\ LET r == ReadString(source, pos, srcEnd) IN
       /\ pos' = r.pos
       /\ IF r.err = "nil"
          THEN /\ line' = TrimSpace(r.line)
               /\ pc' = "push"
               /\ UNCHANGED <<exit, calls>>
          ELSE IF IsEOF(r.err)
          THEN /\ line' = TrimSpace(r.line)
               /\ IF Len(line') > 0
                  THEN pc' = "pushEOF" /\ UNCHANGED <<exit, calls>>
                  ELSE ReturnClose("eof")
          ELSE /\ line' = r.line
               /\ ReturnClose("readErr")
    /\ UNCHANGED <<ctxDone, podCtxDone, podRunning, env, source, srcEnd, openArgs,
                   pushed, chanLen, consumerOn, lateRead, latePush, lateExpiry,
                   resolveVars, parseVars>>

\* the handle was opened with ctx (line 81): once ctx is done a blocked read
\* may fail instead of delivering, and lines 115-118 return
ReadAborted ==
    /\ pc = "read"
    /\ StreamCtxDone
    /\ ReturnClose("readErr")
    /\ UNCHANGED <<ctxDone, podCtxDone, podRunning, env, source, srcEnd, pos, line,
                   openArgs, pushed, chanLen, consumerOn, lateRead, latePush,
                   lateExpiry, resolveVars, parseVars>>

\* streamChan <- line: blocks while the channel is full
Send ==
    /\ chanLen < SinkCap
    /\ pushed' = Append(pushed, line)
    /\ chanLen' = chanLen + 1
    /\ latePush' = (latePush \/ ctxDone)

\* line 104, then the next iteration of the loop
Push ==
    /\ pc = "push"
    /\ Send
    /\ pc' = "select"
    /\ UNCHANGED <<exit, ctxDone, podCtxDone, podRunning, env, source, srcEnd, pos,
                   line, calls, openArgs, consumerOn, lateRead, lateExpiry,
                   resolveVars, parseVars>>

\* lines 109-112
PushEOF ==
    /\ pc = "pushEOF"
    /\ Send
    /\ ReturnClose("eof")
    /\ UNCHANGED <<ctxDone, podCtxDone, podRunning, env, source, srcEnd, pos,
                   line, openArgs, consumerOn, lateRead, lateExpiry, resolveVars, parseVars>>

(* The session's surroundings *)

\* the caller cancels its context
Cancel ==
    /\ ~ctxDone
    /\ pc \notin {"entry", "done"}
    /\ ctxDone' = TRUE
    /\ UNCHANGED <<pc, exit, podCtxDone, podRunning, env, source, srcEnd, pos, line,
                   calls, openArgs, pushed, chanLen, consumerOn, lateRead, latePush,
                   lateExpiry, resolveVars, parseVars>>

\* the timer of context.WithTimeout(ctx, timeout) fires; the deferred cancel
\* (line 306) stops it when waitAndGetLog returns
DeadlineExpires ==
    /\ ~podCtxDone
    /\ pc \notin {"entry", "waitAndGetLog", "done"}
    /\ podCtxDone' = TRUE
    /\ lateExpiry' = (lateExpiry \/ pc \in StreamPcs)
    /\ UNCHANGED <<pc, exit, ctxDone, podRunning, env, source, srcEnd, pos, line,
                   calls, openArgs, pushed, chanLen, consumerOn, lateRead, latePush,
                   resolveVars, parseVars>>

\* the cluster brings a matching pod to the running phase
PodRuns ==
    /\ ~podRunning
    /\ pc = "waitPod"
    /\ podRunning' = TRUE
    /\ UNCHANGED <<pc, exit, ctxDone, podCtxDone, env, source, srcEnd, pos, line,
                   calls, openArgs, pushed, chanLen, consumerOn, lateRead, latePush,
                   lateExpiry, resolveVars, parseVars>>

\* the consumer receives from streamChan
Consume ==
    /\ consumerOn
    /\ chanLen > 0
    /\ chanLen' = chanLen - 1
    /\ UNCHANGED <<pc, exit, ctxDone, podCtxDone, podRunning, env, source, srcEnd,
                   pos, line, calls, openArgs, pushed, consumerOn, lateRead,
                   latePush, lateExpiry, resolveVars, parseVars>>

\* the consumer stops receiving (the HTTP client went away)
ConsumerStops ==
    /\ consumerOn
    /\ pc \in StreamPcs
    /\ consumerOn' = FALSE
    /\ UNCHANGED <<pc, exit, ctxDone, podCtxDone, podRunning, env, source, srcEnd,
                   pos, line, calls, openArgs, pushed, chanLen, lateRead, latePush,
                   lateExpiry, resolveVars, parseVars>>

-----------------------------------------------------------------------------
(* The request and the metadata store *)

\* setting.LocalClusterID, config.Namespace(), setting.AttachedClusterNamespace
LocalClusterID == "local"
DefaultNamespace == "default-ns"
AttachedClusterNamespace == "attached-ns"

\* config.TaskBuild, config.TaskTestingV2
TaskBuild == "buildv2"
TaskTestingV2 == "testingv2"

\* the job types of the config package, by their initials
JobZadigBuild == <<"z", "b">>
JobFreestyle == <<"f">>
JobZadigTesting == <<"z", "t">>
JobZadigScanning == <<"z", "s">>
JobZadigDistributeImage == <<"z", "d">>
JobBuild == <<"b">>
JobPlugin == <<"p">>

\* setting.JobLabelSTypeKey, setting.JobLabelNameKey
JobLabelSTypeKey == "s-type"
JobLabelNameKey == "job-name"

\* a plausible slip: every cluster is given the default namespace
NamespaceAlwaysDefault(clusterID) == DefaultNamespace

\* the switch on the cluster id of lines 188-193, 259-264 and 288-293
NamespaceOf(clusterID) ==
    IF clusterID = LocalClusterID THEN DefaultNamespace ELSE AttachedClusterNamespace

\* a GetContainerOptions with zero values; null marks the nil pointer
NoOptions ==
    [null |-> FALSE, Namespace |-> "", PipelineName |-> <<>>, SubTask |-> "",
     JobName |-> <<>>, JobType |-> <<>>, TaskID |-> 0, ServiceName |-> <<>>,
     ServiceModule |-> <<>>, EnvName |-> <<>>, ProductName |-> "", ClusterID |-> "",
     PipelineType |-> ""]

NilOptions == [NoOptions EXCEPT !.null = TRUE]

EmptyStore == [tasks |-> {}, builds |-> {}, workflows |-> {}, testings |-> {}]

NotFound == [err |-> TRUE]

\* the record found among the matching ones, or not-found
FindOne(matching) ==
    IF matching = {} THEN NotFound
    ELSE [err |-> FALSE, rec |-> CHOOSE r \in matching : TRUE]

\* commonrepo.NewTaskColl().FindTask(name, config.ServiceType)
FindTask(st, name) ==
    FindOne({r \in st.tasks : r.PipelineName = name})

\* commonrepo.NewBuildColl().Find(opt): the fields of opt that are set constrain
BuildFind(st, opt) ==
    FindOne({r \in st.builds :
                /\ (opt.ProductName = "" \/ r.ProductName = opt.ProductName)
                /\ r.Target = opt.Target
                /\ (opt.ServiceName = <<>> \/ r.ServiceName = opt.ServiceName)})

\* commonrepo.NewworkflowTaskv4Coll().Find(workflowName, taskID)
WorkflowFind(st, name, id) ==
    FindOne({r \in st.workflows : r.WorkflowName = name /\ r.TaskID = id})

\* commonrepo.NewTestingColl().Find(name, "")
TestingFind(st, name) ==
    FindOne({r \in st.testings : r.Name = name})

\* label.GetJobLabels(...) as a selector: the five fields it is given
JobLabels(o) ==
    [PipelineName |-> o.PipelineName, TaskID |-> o.TaskID, TaskType |-> o.SubTask,
     ServiceName |-> o.ServiceName, PipelineType |-> o.PipelineType]

\* the orders in which a range over the map of getWorkflowSelector can yield its keys
KeyOrders ==
    {<<JobLabelSTypeKey, JobLabelNameKey>>, <<JobLabelNameKey, JobLabelSTypeKey>>}

\* a plausible slip: leaving the loop after the first key
PruneFirstOnly(m, order) ==
    LET k == Head(order) IN
    IF Len(m[k]) = 0 THEN [j \in DOMAIN m \ {k} |-> m[j]] ELSE m

\* lines 354-358: the range over the map, deleting the keys with an empty value
RECURSIVE PruneEmpty(_, _)
PruneEmpty(m, order) ==
    IF order = <<>> THEN m
    ELSE LET k == Head(order)
             rest == IF k \in DOMAIN m /\ Len(m[k]) = 0
                     THEN [j \in DOMAIN m \ {k} |-> m[j]] ELSE m
         IN  PruneEmpty(rest, Tail(order))

\* getWorkflowSelector: the two labels, without those whose value is empty
getWorkflowSelector(o, order) ==
    LET retMap == [k \in {JobLabelSTypeKey, JobLabelNameKey} |->
                      IF k = JobLabelSTypeKey THEN ReplaceAll(o.JobType, "_", "-")
                      ELSE ReplaceAll(o.JobName, "_", "-")]
    IN  PruneEmpty(retMap, order)

NoSelector == <<>>

Pair(o) == [ClusterID |-> o.ClusterID, Namespace |-> o.Namespace]

-----------------------------------------------------------------------------
(* The entry points *)

\* a plausible slip: no second lookup
FirstLookupOnly(first, second) == first

\* lines 169-183: the build of the second lookup when the first one failed
ChooseBuild(first, second) == IF first.err THEN second ELSE first

\* lines 148-195 of TaskContainerLogStream
TaskResolve(o, st) ==
    LET parsed == parseServiceName(o.ServiceName, o.ServiceModule)
        serviceName == parsed[1]
        serviceModule == parsed[2]
    IN
    IF o.EnvName # <<>> /\ o.ProductName # "" /\ o.PipelineName = <<>>
    THEN LET name == serviceName \o <<"-">> \o o.EnvName \o JobSuffix
             taskObj == FindTask(st, name)
         IN  [options |-> [o EXCEPT !.PipelineName = name,
                                    !.TaskID = IF taskObj.err THEN @ ELSE taskObj.rec.TaskID],
              lookups |-> <<"FindTask">>,
              abort |-> FALSE]
    ELSE IF o.ProductName # ""
    THEN LET first == BuildFind(st, [ProductName |-> o.ProductName,
                                     Target |-> serviceModule,
                                     ServiceName |-> serviceName])
             second == BuildFind(st, [ProductName |-> "",
                                      Target |-> serviceModule,
                                      ServiceName |-> serviceName])
             build == ChooseBuild(first, second)
             lookups == IF first.err THEN <<"BuildFind", "BuildFindShared">>
                        ELSE <<"BuildFind">>
         IN  IF build.err
             THEN [options |-> o, lookups |-> lookups, abort |-> TRUE]
             ELSE IF build.rec.PreBuild.present /\ build.rec.PreBuild.ClusterID # ""
             THEN [options |-> [o EXCEPT !.ClusterID = build.rec.PreBuild.ClusterID,
                                         !.Namespace = NamespaceOf(build.rec.PreBuild.ClusterID)],
                   lookups |-> lookups,
                   abort |-> FALSE]
             ELSE [options |-> o, lookups |-> lookups, abort |-> FALSE]
    ELSE [options |-> o, lookups |-> <<>>, abort |-> FALSE]

\* TaskContainerLogStream up to its call of waitAndGetLog
TaskContainerLogStream ==
    /\ pc = "entry"
    /\ entry = "Task"
    /\ IF options.null
       THEN /\ Return("nilOptions")
            /\ UNCHANGED <<options, selector, calls, snap>>
       ELSE LET r == TaskResolve(options, store)
                o == [r.options EXCEPT !.SubTask = IF @ = "" THEN TaskBuild ELSE @]
            IN  /\ calls' = calls \o r.lookups
                /\ snap' = Append(snap, Pair(r.options))
                /\ IF r.abort
                   THEN /\ Return("buildNotFound")
                        /\ options' = r.options
                        /\ selector' = selector
                   ELSE /\ pc' = "waitAndGetLog"
                        /\ exit' = exit
                        /\ options' = o
                        /\ selector' = JobLabels(o)
    /\ UNCHANGED <<ctxDone, podCtxDone, podRunning, env, source, srcEnd, pos, line,
                   openArgs, pushed, chanLen, consumerOn, lateRead, latePush,
                   lateExpiry, entry, store, round, given, parseVars>>

FreestyleSpecJobTypes ==
    {JobZadigBuild, JobFreestyle, JobZadigTesting, JobZadigScanning,
     JobZadigDistributeImage, JobBuild}

\* a plausible slip: a default case that falls through instead of returning
AnyJobType(jobType) == TRUE

\* lines 231-255: the job types the switch has a case for
SupportedJobType(jobType) == jobType \in FreestyleSpecJobTypes \cup {JobPlugin}

\* lines 221-266: the loop over the jobs of one stage, from job i on
RECURSIVE ScanJobs(_, _, _)
ScanJobs(o, jobs, i) ==
    IF i > Len(jobs) THEN [options |-> o, abort |-> "none"]
    ELSE IF jobs[i].Name # o.SubTask THEN ScanJobs(o, jobs, i + 1)
    ELSE LET job == jobs[i]
             named == [o EXCEPT !.JobName = job.K8sJobName, !.JobType = job.JobType]
             clusterID == IF job.Spec.ClusterID = "" THEN LocalClusterID
                          ELSE job.Spec.ClusterID
         IN  IF SupportedJobType(job.JobType)
             THEN IF ~job.Spec.ok
                  THEN [options |-> named, abort |-> "badSpec"]
                  ELSE [options |-> [named EXCEPT !.ClusterID = clusterID,
                                                  !.Namespace = NamespaceOf(clusterID)],
                        abort |-> "none"]
             ELSE [options |-> named, abort |-> "unsupported"]

\* lines 220-267: the loop over the stages, from stage s on
RECURSIVE ScanStages(_, _, _)
ScanStages(o, stages, s) ==
    IF s > Len(stages) THEN [options |-> o, abort |-> "none"]
    ELSE LET r == ScanJobs(o, stages[s], 1) IN
         IF r.abort # "none" THEN r ELSE ScanStages(r.options, stages, s + 1)

\* WorkflowTaskV4ContainerLogStream up to its call of waitAndGetLog
WorkflowTaskV4ContainerLogStream ==
    /\ pc = "entry"
    /\ entry = "WorkflowV4"
    /\ IF options.null
       THEN /\ Return("nilOptions")
            /\ UNCHANGED <<options, selector, calls, snap>>
       ELSE LET task == WorkflowFind(store, options.PipelineName, options.TaskID) IN
            /\ calls' = Append(calls, "WorkflowFind")
            /\ IF task.err
               THEN /\ Return("taskNotFound")
                    /\ snap' = Append(snap, Pair(options))
                    /\ UNCHANGED <<options, selector>>
               ELSE LET r == ScanStages(options, task.rec.Stages, 1) IN
                    /\ options' = r.options
                    /\ snap' = Append(snap, Pair(r.options))
                    /\ IF r.abort # "none"
                       THEN /\ Return(r.abort)
                            /\ selector' = selector
                       ELSE /\ pc' = "waitAndGetLog"
                            /\ exit' = exit
                            /\ \E order \in KeyOrders :
                                selector' = getWorkflowSelector(r.options, order)
    /\ UNCHANGED <<ctxDone, podCtxDone, podRunning, env, source, srcEnd, pos, line,
                   openArgs, pushed, chanLen, consumerOn, lateRead, latePush,
                   lateExpiry, entry, store, round, given, parseVars>>

\* a plausible slip: a failed lookup falls back to the local cluster
TestJobDefaulting(o, st) ==
    LET sub == [o EXCEPT !.SubTask = TaskTestingV2]
        testing == TestingFind(st, getTestName(o.ServiceName))
        clusterID == IF testing.err \/ ~testing.rec.PreTest.present
                        \/ testing.rec.PreTest.ClusterID = ""
                     THEN LocalClusterID ELSE testing.rec.PreTest.ClusterID
    IN  [sub EXCEPT !.ClusterID = clusterID, !.Namespace = NamespaceOf(clusterID)]

\* lines 274-294 of TestJobContainerLogStream
TestJobResolve(o, st) ==
    LET sub == [o EXCEPT !.SubTask = TaskTestingV2]
        testing == TestingFind(st, getTestName(o.ServiceName))
    IN  IF ~testing.err /\ testing.rec.PreTest.present
           /\ testing.rec.PreTest.ClusterID # ""
        THEN [sub EXCEPT !.ClusterID = testing.rec.PreTest.ClusterID,
                         !.Namespace = NamespaceOf(testing.rec.PreTest.ClusterID)]
        ELSE sub

\* TestJobContainerLogStream up to its call of waitAndGetLog; line 274
\* dereferences options without a nil test
TestJobContainerLogStream ==
    /\ pc = "entry"
    /\ entry = "TestJob"
    /\ IF options.null
       THEN /\ Return("panic")
            /\ UNCHANGED <<options, selector, calls, snap>>
       ELSE /\ options' = TestJobResolve(options, store)
            /\ selector' = JobLabels([options EXCEPT !.SubTask = TaskTestingV2])
            /\ calls' = Append(calls, "TestingFind")
            /\ snap' = Append(snap, Pair(options'))
            /\ pc' = "waitAndGetLog"
            /\ exit' = exit
    /\ UNCHANGED <<ctxDone, podCtxDone, podRunning, env, source, srcEnd, pos, line,
                   openArgs, pushed, chanLen, consumerOn, lateRead, latePush,
                   lateExpiry, entry, store, round, given, parseVars>>

\* the caller invokes the same entry point again on the same options, with a
\* fresh context and sink, after the first session has returned
Reinvoke ==
    /\ pc = "done"
    /\ round = 1
    /\ exit \notin {"nilOptions", "panic"}
    /\ round' = 2
    /\ pc' = "entry"
    /\ exit' = "none"
    /\ podRunning' = FALSE
    /\ pos' = 0
    /\ line' = <<>>
    /\ calls' = <<>>
    /\ openArgs' = [namespace |-> "", pod |-> "", container |-> ""]
    /\ pushed' = <<>>
    /\ chanLen' = 0
    /\ given' = options
    /\ UNCHANGED <<ctxDone, podCtxDone, env, source, srcEnd, consumerOn, lateRead,
                   latePush, lateExpiry, entry, options, store, selector, snap,
                   parseVars>>

\* the request of a session that starts at waitAndGetLog
StreamOptions ==
    [NoOptions EXCEPT !.Namespace = DefaultNamespace, !.ClusterID = LocalClusterID,
                      !.SubTask = TaskBuild]

\* the requests of the sessions that start at waitAndGetLog
StreamRequests ==
    {StreamOptions,
     [StreamOptions EXCEPT !.Namespace = AttachedClusterNamespace,
                           !.ClusterID = "c1", !.SubTask = TaskTestingV2]}

\* no GetContainerLogStream call yet
NoArgs == [namespace |-> "", pod |-> "", container |-> ""]

InitSession ==
    /\ exit = "none"
    /\ ctxDone = FALSE
    /\ podCtxDone = FALSE
    /\ podRunning = FALSE
    /\ pos = 0
    /\ line = <<>>
    /\ calls = <<>>
    /\ openArgs = NoArgs
    /\ pushed = <<>>
    /\ chanLen = 0
    /\ consumerOn = TRUE
    /\ lateRead = FALSE
    /\ latePush = FALSE
    /\ lateExpiry = FALSE

InitStream ==
    /\ pc = "waitAndGetLog"
    /\ InitSession
    /\ env \in Envs
    /\ source \in Strings(LogAlphabet, MaxSrc)
    /\ srcEnd \in {"EOF", "ERR"}
    /\ entry = "waitAndGetLog"
    /\ options \in StreamRequests
    /\ store = EmptyStore
    /\ selector = NoSelector
    /\ round = 1
    /\ snap = <<>>
    /\ given = options
    /\ fnPc = "none"
    /\ fnIn = [fn |-> "none"]
    /\ fnOut = <<>>

Engine ==
    \/ GetClientset
    \/ WaitPodOK
    \/ WaitPodFail
    \/ ListPods
    \/ SelectCtx
    \/ ReadReturn
    \/ ReadAborted
    \/ Push
    \/ PushEOF

NextStream ==
    \/ Engine
    \/ Cancel
    \/ DeadlineExpires
    \/ PodRuns
    \/ Consume
    \/ ConsumerStops

SpecStream == InitStream /\ [][NextStream]_vars

-----------------------------------------------------------------------------
(* Sessions that start at an entry point *)

\* a cluster id that is not the local one, and a namespace of the caller's own
OtherClusterID == "c1"
CallerNamespace == "custom-ns"

ClusterDecls ==
    {[present |-> FALSE, ClusterID |-> ""], [present |-> TRUE, ClusterID |-> ""],
     [present |-> TRUE, ClusterID |-> LocalClusterID],
     [present |-> TRUE, ClusterID |-> OtherClusterID]}

CallerClusters == {"", LocalClusterID, OtherClusterID}
CallerNamespaces == {"", CallerNamespace}

TaskRequests ==
    {[NoOptions EXCEPT !.EnvName = e, !.ProductName = p, !.PipelineName = w,
                       !.ServiceName = sv[1], !.ServiceModule = sv[2],
                       !.SubTask = t, !.ClusterID = c, !.Namespace = n,
                       !.TaskID = id] :
        e \in {<<>>, <<"e">>}, p \in {"", "p"}, w \in {<<>>, <<"w">>}, id \in {0, 3},
        sv \in {<< <<"m", "_", "s">>, <<>> >>, << <<"m", "_", "s">>, <<"m">> >>,
                << <<"m">>, <<>> >>},
        t \in {"", "deploy"}, c \in CallerClusters, n \in CallerNamespaces}

TaskStores ==
    {[EmptyStore EXCEPT !.tasks = t, !.builds = b] :
        t \in {{}, {[PipelineName |-> <<"s", "-", "e", "-", "j", "o", "b">>,
                     TaskID |-> 9]}},
        b \in {{}} \cup {{[ProductName |-> p, Target |-> <<"m">>,
                           ServiceName |-> <<"s">>, PreBuild |-> d]} :
                            p \in {"p", "q"}, d \in ClusterDecls}}

Job(name, k8sJobName, jobType, ok, clusterID) ==
    [Name |-> name, K8sJobName |-> k8sJobName, JobType |-> jobType,
     Spec |-> [ok |-> ok, ClusterID |-> clusterID]]

\* the jobs a task record is made of: one with another name, and jobs named as
\* the requested sub-task with each kind of type and spec
JobKinds ==
    {Job("other", <<"k", "_", "o">>, JobZadigBuild, TRUE, OtherClusterID),
     Job("b", <<"k", "_", "1">>, JobZadigBuild, TRUE, ""),
     Job("b", <<"k", "2">>, JobZadigTesting, TRUE, OtherClusterID),
     Job("b", <<"k", "3">>, JobPlugin, TRUE, LocalClusterID),
     Job("b", <<"k", "4">>, JobFreestyle, FALSE, ""),
     Job("b", <<"k", "5">>, <<"x">>, TRUE, OtherClusterID)}

\* the job list js cut into stages after the positions in cuts
Cut(js, cuts) ==
    LET starts == {1} \cup {c + 1 : c \in cuts}
        nthStart(k) == CHOOSE a \in starts : Cardinality({b \in starts : b < a}) = k - 1
        endOf(a) == Min({c \in cuts : c >= a} \cup {Len(js)})
    IN  IF js = <<>> THEN <<>>
        ELSE [k \in 1..Cardinality(starts) |-> SubSeq(js, nthStart(k), endOf(nthStart(k)))]

StageLists ==
    UNION {{Cut(js, cuts) :
                cuts \in {c \in SUBSET (1..(Len(js) - 1)) : Cardinality(c) < MaxStages}} :
           js \in Strings(JobKinds, MaxJobs)}

WorkflowRequests ==
    {[NoOptions EXCEPT !.PipelineName = <<"w">>, !.TaskID = 7, !.SubTask = "b",
                       !.ClusterID = c, !.Namespace = n] :
        c \in CallerClusters, n \in CallerNamespaces}

WorkflowStores ==
    {EmptyStore}
    \cup {[EmptyStore EXCEPT !.workflows =
                {[WorkflowName |-> <<"w">>, TaskID |-> 7, Stages |-> st]}] :
            st \in StageLists}

TestRequests ==
    {[NoOptions EXCEPT !.ServiceName = sv, !.ClusterID = c, !.Namespace = n] :
        sv \in {<<"t">> \o JobSuffix, <<"b">> \o JobSuffix, <<"t">>},
        c \in CallerClusters, n \in CallerNamespaces}

TestStores ==
    {EmptyStore}
    \cup {[EmptyStore EXCEPT !.testings = {[Name |-> nm, PreTest |-> d]}] :
            nm \in {<<"t">>, <<"b">>}, d \in ClusterDecls}

Scenarios ==
    {[entry |-> "Task", options |-> o, store |-> st] :
        o \in TaskRequests \cup {NilOptions}, st \in TaskStores}
    \cup {[entry |-> "WorkflowV4", options |-> o, store |-> st] :
            o \in WorkflowRequests \cup {NilOptions}, st \in WorkflowStores}
    \cup {[entry |-> "TestJob", options |-> o, store |-> st] :
            o \in TestRequests \cup {NilOptions}, st \in TestStores}

NoCall == [fn |-> "none"]

InitResolve ==
    /\ pc = "entry"
    /\ InitSession
    /\ env = NoErrEnv(<<"pod-a">>)
    /\ source = <<"a">>
    /\ srcEnd = "EOF"
    /\ \E sc \in Scenarios :
        /\ entry = sc.entry
        /\ options = sc.options
        /\ store = sc.store
        /\ snap = <<Pair(sc.options)>>
        /\ given = sc.options
    /\ selector = NoSelector
    /\ round = 1
    /\ fnPc = "none"
    /\ fnIn = NoCall
    /\ fnOut = <<>>

\* no cancellation and no deadline in these sessions: the pod runs, the log
\* holds one unterminated line and the consumer receives it
NextResolve ==
    \/ TaskContainerLogStream
    \/ WorkflowTaskV4ContainerLogStream
    \/ TestJobContainerLogStream
    \/ Reinvoke
    \/ GetClientset
    \/ PodRuns
    \/ WaitPodOK
    \/ ListPods
    \/ SelectCtx
    \/ ReadReturn
    \/ PushEOF
    \/ Consume

SpecResolve == InitResolve /\ [][NextResolve]_vars

-----------------------------------------------------------------------------
(* Calls of the name helpers *)

NameAlphabet == {"a", "b", "_"}
TestAlphabet == {"-", "j", "o", "b", "t"}

HelperCalls ==
    {[fn |-> "parseServiceName", fullServiceName |-> f, serviceModule |-> m] :
        f \in Strings(NameAlphabet, MaxName), m \in Strings(NameAlphabet, MaxName - 2)}
    \cup {[fn |-> "getTestName", serviceName |-> t \o x] :
            t \in Strings(TestAlphabet, MaxName), x \in {<<>>, JobSuffix}}
    \cup {[fn |-> "getWorkflowSelector", JobType |-> t, JobName |-> n, order |-> ord] :
            t \in Strings({"a", "_"}, MaxName - 2), n \in Strings({"a", "_"}, MaxName - 2),
            ord \in KeyOrders}

InitParse ==
    /\ pc = "idle"
    /\ InitSession
    /\ env = NoErrEnv(<<>>)
    /\ source = <<>>
    /\ srcEnd = "EOF"
    /\ entry = "none"
    /\ options = NoOptions
    /\ store = EmptyStore
    /\ selector = NoSelector
    /\ round = 1
    /\ snap = <<>>
    /\ given = options
    /\ fnPc = "call"
    /\ fnIn \in HelperCalls
    /\ fnOut = <<>>

CallParseServiceName ==
    /\ fnPc = "call"
    /\ fnIn.fn = "parseServiceName"
    /\ fnOut' = parseServiceName(fnIn.fullServiceName, fnIn.serviceModule)
    /\ fnPc' = "ret"
    /\ UNCHANGED <<fnIn, streamVars, resolveVars>>

CallGetTestName ==
    /\ fnPc = "call"
    /\ fnIn.fn = "getTestName"
    /\ fnOut' = getTestName(fnIn.serviceName)
    /\ fnPc' = "ret"
    /\ UNCHANGED <<fnIn, streamVars, resolveVars>>

CallGetWorkflowSelector ==
    /\ fnPc = "call"
    /\ fnIn.fn = "getWorkflowSelector"
    /\ fnOut' = getWorkflowSelector([NoOptions EXCEPT !.JobType = fnIn.JobType,
                                                      !.JobName = fnIn.JobName],
                                     fnIn.order)
    /\ fnPc' = "ret"
    /\ UNCHANGED <<fnIn, streamVars, resolveVars>>

NextParse ==
    \/ CallParseServiceName
    \/ CallGetTestName
    \/ CallGetWorkflowSelector

SpecParse == InitParse /\ [][NextParse]_vars

\* The goroutine of the session is scheduled, timers fire, and a consumer that
\* has not stopped keeps receiving.
FairStream ==
    /\ SpecStream
    /\ WF_vars(Engine)
    /\ WF_vars(DeadlineExpires)
    /\ WF_vars(Consume)

-----------------------------------------------------------------------------
(* Properties of the streaming session *)

\* s without its leading and trailing whitespace
Strip(s) ==
    LET keep == {i \in 1..Len(s) : ~IsSpace(s[i])} IN
    IF keep = {} THEN <<>> ELSE SubSeq(s, Min(keep), Max(keep))

\* what the sink has to receive for the log source s
ExpectedLines(s) ==
    LET nls == {i \in 1..Len(s) : s[i] = NL}
        n == Cardinality(nls)
        nth(k) == CHOOSE i \in nls : Cardinality({j \in nls : j < i}) = k - 1
        start(k) == IF k = 1 THEN 1 ELSE nth(k - 1) + 1
        last == Strip(SubSeq(s, start(n + 1), Len(s)))
    IN  [k \in 1..n |-> Strip(SubSeq(s, start(k), nth(k) - 1))]
            \o (IF last = <<>> THEN <<>> ELSE <<last>>)

\* the session got a log handle from GetContainerLogStream
HandleOpened ==
    /\ Count(calls, "GetContainerLogStream") > 0
    /\ ~(pc = "done" /\ exit = "openErr")

\* C1: a session whose source ends with end-of-input and whose context is
\* never cancelled has pushed exactly the trimmed terminated lines in order,
\* then the trimmed final partial line iff it is not empty.
C1_LineDelivery ==
    (pc = "done" /\ HandleOpened /\ srcEnd = "EOF" /\ ~ctxDone)
        => (exit = "eof" /\ pushed = ExpectedLines(source))

C1_Witness ==
    /\ pc = "done"
    /\ exit = "eof"
    /\ ~ctxDone
    /\ source = <<" ", NL, "a", " ">>
    /\ pushed = << <<>>, <<"a">> >>

\* C2: nothing is pushed and no read is started once the caller's context is
\* done, also when a read in progress at cancellation returns a full line.
C2_NoWriteAfterDone ==
    ~latePush /\ ~lateRead

\* C3: a handle that was opened is closed exactly once by the end of the
\* session and not before; without an opened handle nothing is closed.
C3_CloseOnce ==
    Count(calls, "Close") = (IF pc = "done" /\ HandleOpened THEN 1 ELSE 0)

C3_Witness ==
    /\ pc = "done"
    /\ exit = "cancelled"
    /\ Count(calls, "Close") = 1

\* C4: after a cancellation the session eventually ends with its handle closed.
C4_CancelTerminates ==
    ctxDone ~> (pc = "done" /\ (HandleOpened => Count(calls, "Close") = 1))

\* C5: a wait that ends while no pod ever ran is a failure after which
\* nothing is listed, opened or pushed; and no wait lasts forever.
C5_PodWaitTimeout ==
    /\ []((pc = "done" /\ Count(calls, "WaitUntilPodRunning") > 0 /\ ~podRunning)
            => /\ exit = "waitErr"
               /\ Count(calls, "ListPods") = 0
               /\ Count(calls, "GetContainerLogStream") = 0
               /\ pushed = <<>>)
    /\ ((pc = "waitPod") ~> (pc # "waitPod"))

C5_Witness ==
    /\ pc = "done"
    /\ exit = "waitErr"
    /\ podCtxDone
    /\ ~ctxDone
    /\ ~podRunning
    /\ ~env.waitErr

-----------------------------------------------------------------------------
(* Properties of the resolution of the request *)

\* the namespace that belongs to a cluster id
ExpectedNamespace(clusterID) ==
    IF clusterID = LocalClusterID THEN DefaultNamespace ELSE AttachedClusterNamespace

\* the session went through one of the four variants of the resolver: both
\* branches of TaskContainerLogStream need a product name
InVariant ==
    entry \in {"WorkflowV4", "TestJob"} \/ (entry = "Task" /\ options.ProductName # "")

\* C6, as stated: in each variant, whenever pod search begins, the namespace of
\* the request is the one that belongs to its cluster id.
C6_NamespaceByCluster ==
    (pc = "waitAndGetLog" /\ InVariant)
        => options.Namespace = ExpectedNamespace(options.ClusterID)

\* C6, amended: in each variant, whenever pod search begins, either the
\* resolution has left cluster id and namespace as they were given, or the
\* namespace is the one that belongs to the cluster id.
C6_NamespaceWhenAssigned ==
    (pc = "waitAndGetLog" /\ InVariant) =>
        \/ Pair(options) = snap[Len(snap) - 1]
        \/ options.Namespace = ExpectedNamespace(options.ClusterID)

C6_Witness ==
    /\ pc = "waitAndGetLog"
    /\ entry = "WorkflowV4"
    /\ round = 1
    /\ snap[1] = [ClusterID |-> LocalClusterID, Namespace |-> CallerNamespace]
    /\ Pair(options) = [ClusterID |-> OtherClusterID, Namespace |-> AttachedClusterNamespace]

\* C7: a second resolution of the same request leaves cluster id and namespace
\* as the first resolution left them.
C7_Idempotent ==
    Len(snap) = 3 => snap[3] = snap[2]

-----------------------------------------------------------------------------
(* Properties of the name helpers *)

Underscores(s) == {i \in 1..Len(s) : s[i] = "_"}

ParseReturned ==
    fnPc = "ret" /\ fnIn.fn = "parseServiceName"

\* C8, as stated: without a module, "A_B" gives module A and service B, and a
\* name with no or with several underscores gives two empty strings.
C8_SplitOrEmpty ==
    (ParseReturned /\ fnIn.serviceModule = <<>>) =>
        LET full == fnIn.fullServiceName
            us == Underscores(full)
        IN  IF Cardinality(us) = 1
            THEN LET i == CHOOSE u \in us : TRUE IN
                 fnOut = <<SubSeq(full, i + 1, Len(full)), SubSeq(full, 1, i - 1)>>
            ELSE fnOut = << <<>>, <<>> >>

\* C8, amended: without a module, "A_B" gives module A and service B, a name
\* without underscore gives the name as module and an empty service, and a
\* name with several underscores gives two empty strings.
C8_SplitLegacyOrEmpty ==
    (ParseReturned /\ fnIn.serviceModule = <<>>) =>
        LET full == fnIn.fullServiceName
            us == Underscores(full)
        IN  IF Cardinality(us) = 1
            THEN LET i == CHOOSE u \in us : TRUE IN
                 fnOut = <<SubSeq(full, i + 1, Len(full)), SubSeq(full, 1, i - 1)>>
            ELSE IF us = {} THEN fnOut = <<<<>>, full>>
            ELSE fnOut = << <<>>, <<>> >>

C8_Witness ==
    /\ ParseReturned
    /\ fnIn.serviceModule = <<>>
    /\ fnIn.fullServiceName = <<"a", "_", "b", "b">>
    /\ fnOut = << <<"b", "b">>, <<"a">> >>

\* C9: with a module M, the module returned is M, the service is X for the
\* name "M_X" and the whole name when it does not start with "M_".
C9_ExplicitModule ==
    (ParseReturned /\ fnIn.serviceModule # <<>>) =>
        LET full == fnIn.fullServiceName
            m == fnIn.serviceModule
            k == Len(m) + 1
            starts == /\ Len(full) >= k
                      /\ \A i \in 1..Len(m) : full[i] = m[i]
                      /\ full[k] = "_"
        IN  /\ fnOut[2] = m
            /\ fnOut[1] = IF starts THEN [i \in 1..(Len(full) - k) |-> full[i + k]]
                          ELSE full

C9_Witness ==
    /\ ParseReturned
    /\ fnIn.serviceModule = <<"a">>
    /\ fnIn.fullServiceName = <<"a", "_", "_", "b">>
    /\ fnOut = << <<"_", "b">>, <<"a">> >>

\* C10: getTestName removes one trailing "-job" and nothing else.
C10_TrimsOneSuffix ==
    (fnPc = "ret" /\ fnIn.fn = "getTestName") =>
        LET name == fnIn.serviceName
            n == Len(name)
            ends == n >= 4 /\ SubSeq(name, n - 3, n) = <<"-", "j", "o", "b">>
        IN  fnOut = IF ends THEN SubSeq(name, 1, n - 4) ELSE name

-----------------------------------------------------------------------------
(* Properties of the workflow-v4 variant *)

\* all jobs of a task record, in stage order then job order
RECURSIVE Flatten(_)
Flatten(stages) ==
    IF stages = <<>> THEN <<>> ELSE Head(stages) \o Flatten(Tail(stages))

\* the workflow-v4 resolution of this round is over and had its task record
WorkflowResolved ==
    /\ entry = "WorkflowV4"
    /\ ~options.null
    /\ Len(snap) > round
    /\ ~WorkflowFind(store, options.PipelineName, options.TaskID).err

JobsOfTask == Flatten(WorkflowFind(store, options.PipelineName, options.TaskID).rec.Stages)

\* the positions of the jobs named as the requested sub-task
Matches == {i \in 1..Len(JobsOfTask) : JobsOfTask[i].Name = options.SubTask}

\* the job named as the requested sub-task: the first one in stage order
FirstMatch == JobsOfTask[Min(Matches)]

\* build, freestyle, testing, scanning, image distribution, plugin, legacy build
Recognized(job) ==
    job.JobType \in {JobZadigBuild, JobFreestyle, JobZadigTesting, JobZadigScanning,
                     JobZadigDistributeImage, JobPlugin, JobBuild}

\* C11: workflow-v4, task record found, the job named as the sub-task has a
\* recognized type and a spec without cluster id: the request gets the local
\* cluster id and the default namespace whatever the caller had put there, and
\* the pod search runs with them.
C11_EmptyClusterDefaults ==
    (/\ WorkflowResolved
     /\ Matches # {}
     /\ Recognized(FirstMatch)
     /\ FirstMatch.Spec.ok
     /\ FirstMatch.Spec.ClusterID = "")
        => /\ Pair(options) = [ClusterID |-> LocalClusterID,
                               Namespace |-> DefaultNamespace]
           /\ exit \notin {"badSpec", "unsupported"}
           /\ HandleOpened => openArgs.namespace = DefaultNamespace

\* C12: workflow-v4: when the task record is not found, or the job named as
\* the sub-task has a type outside the recognized set, or its spec cannot be
\* decoded, the session ends before any pod search: no client resolved, no pod
\* wait or listing, no log handle, nothing written to the sink.
C12_FatalBeforePodSearch ==
    (entry = "WorkflowV4" /\ ~options.null /\ Len(snap) > round) =>
        LET task == WorkflowFind(store, options.PipelineName, options.TaskID)
            fatal == IF task.err THEN "taskNotFound"
                     ELSE IF Matches = {} THEN "none"
                     ELSE IF ~Recognized(FirstMatch) THEN "unsupported"
                     ELSE IF ~FirstMatch.Spec.ok THEN "badSpec"
                     ELSE "none"
        IN  fatal # "none" =>
                /\ pc = "done"
                /\ exit = fatal
                /\ calls = <<"WorkflowFind">>
                /\ openArgs = NoArgs
                /\ pushed = <<>>
                /\ chanLen = 0

C12_Witness ==
    /\ entry = "WorkflowV4"
    /\ pc = "done"
    /\ exit = "unsupported"
    /\ Len(snap) > round
    /\ Len(JobsOfTask) = 2
    /\ JobsOfTask[1].Name = "other"
    /\ ~Recognized(JobsOfTask[2])
    /\ calls = <<"WorkflowFind">>

-----------------------------------------------------------------------------
(* Properties of the build-log, environment-log and test-job variants *)

\* the build-log resolution of this round is over
BuildLogResolved ==
    /\ entry = "Task"
    /\ ~options.null
    /\ Len(snap) > round
    /\ given.ProductName # ""
    /\ ~(given.EnvName # <<>> /\ given.PipelineName = <<>>)

\* the build record a lookup for the request finds, with the product or without
BuildFor(product) ==
    LET parsed == parseServiceName(given.ServiceName, given.ServiceModule) IN
    BuildFind(store, [ProductName |-> product, Target |-> parsed[2],
                      ServiceName |-> parsed[1]])

\* C13: build-log: the build is looked up with the product first and, only when
\* that fails, once more without it; a second lookup that succeeds lets the
\* resolution go on with that build; when both fail the session ends with no
\* pod search, no log handle, nothing written, cluster id and namespace as given.
C13_BuildLookupFallback ==
    BuildLogResolved =>
        LET first == BuildFor(given.ProductName)
            second == BuildFor("")
        IN  /\ calls[1] = "BuildFind"
            /\ Count(calls, "BuildFind") = 1
            /\ Count(calls, "BuildFindShared") = IF first.err THEN 1 ELSE 0
            /\ first.err => calls[2] = "BuildFindShared"
            /\ (first.err /\ ~second.err) =>
                /\ exit # "buildNotFound"
                /\ (second.rec.PreBuild.present /\ second.rec.PreBuild.ClusterID # "") =>
                    /\ options.ClusterID = second.rec.PreBuild.ClusterID
                    /\ options.Namespace = ExpectedNamespace(options.ClusterID)
            /\ (first.err /\ second.err) =>
                /\ pc = "done"
                /\ exit = "buildNotFound"
                /\ calls = <<"BuildFind", "BuildFindShared">>
                /\ openArgs = NoArgs
                /\ pushed = <<>>
                /\ Pair(options) = Pair(given)

C13_Witness ==
    /\ BuildLogResolved
    /\ round = 1
    /\ BuildFor(given.ProductName).err
    /\ ~BuildFor("").err
    /\ Pair(given) = [ClusterID |-> LocalClusterID, Namespace |-> CallerNamespace]
    /\ Pair(options) = [ClusterID |-> OtherClusterID,
                        Namespace |-> AttachedClusterNamespace]
    /\ HandleOpened
    /\ openArgs.namespace = AttachedClusterNamespace

-----------------------------------------------------------------------------
(* Properties of the life of a streaming session *)

\* COMPLETED, CANCELLED, FAILED
TerminalExits == {"eof", "cancelled", "readErr"}

\* C14: a session opens its handle, then streams, then ends as completed,
\* cancelled or failed; an ended session reads and pushes no more; a session
\* whose handle could not be opened ends at once, having read and pushed nothing.
C14_Lifecycle ==
    /\ [](exit # "none" <=> pc = "done")
    /\ [](pc \in StreamPcs => HandleOpened)
    /\ []((pos > 0 \/ pushed # <<>>) => HandleOpened)
    /\ []((pc = "done" /\ HandleOpened) => exit \in TerminalExits)
    /\ [](exit = "openErr" => (pos = 0 /\ pushed = <<>>))
    /\ [][(pc \in StreamPcs) => (pc' = "done" \/ pc' \in StreamPcs)]_vars
    /\ [][(pc = "listPods" /\ env.openErr) => (pc' = "done" \/ pc' = pc)]_vars
    /\ [][pc = "done" => (pc' = "done" /\ exit' = exit /\ pos' = pos
                            /\ pushed' = pushed /\ calls' = calls)]_vars

C14_Witness ==
    /\ pc = "done"
    /\ exit = "cancelled"
    /\ HandleOpened
    /\ Len(pushed) = 1
    /\ pos < Len(source)

\* the trimmed lines of s that end with a newline, in order
TerminatedLines(s) ==
    LET nls == {i \in 1..Len(s) : s[i] = NL} IN
    IF nls = {} THEN <<>> ELSE ExpectedLines(SubSeq(s, 1, Max(nls)))

\* C15: a read error other than end-of-input ends the session as failed: the
\* lines pushed before stay in the sink in order, the bytes that came with the
\* error are not pushed, nothing else is written, and the read is not retried.
C15_ReadErrorFails ==
    LET done == TerminatedLines(source) IN
    /\ (pc = "done" /\ HandleOpened /\ srcEnd = "ERR" /\ ~ctxDone) =>
            (exit = "readErr" /\ pos = Len(source) /\ pushed = done)
    /\ (pc = "done" /\ exit = "readErr") =>
            /\ Len(pushed) <= Len(done)
            /\ pushed = SubSeq(done, 1, Len(pushed))
            /\ Count(calls, "GetContainerLogStream") = 1

C15_Witness ==
    /\ pc = "done"
    /\ exit = "readErr"
    /\ ~ctxDone
    /\ source = <<" ", "a", NL, "a">>
    /\ pushed = << <<"a">> >>

\* the environment-log resolution of this round is over
EnvLogResolved ==
    /\ entry = "Task"
    /\ ~options.null
    /\ Len(snap) > round
    /\ given.EnvName # <<>>
    /\ given.ProductName # ""
    /\ given.PipelineName = <<>>

\* the test-job resolution of this round is over
TestJobResolved ==
    /\ entry = "TestJob"
    /\ ~options.null
    /\ Len(snap) > round

\* the session is in its pod search or past it
PodSearchAttempted ==
    /\ pc # "entry"
    /\ exit \in {"none", "eof"}
    /\ pc # "waitAndGetLog" =>
        SubSeq(calls, 2, 3) = <<"GetClientset", "WaitUntilPodRunning">>

\* C16: environment-log and test-job: a metadata lookup that fails never ends
\* the session: the pod search is attempted all the same, and the task id
\* (environment-log) or the cluster id and namespace (test-job) stay as given.
C16_LookupFailureTolerated ==
    /\ (EnvLogResolved /\ FindTask(store, options.PipelineName).err) =>
            (PodSearchAttempted /\ options.TaskID = given.TaskID)
    /\ (TestJobResolved /\ TestingFind(store, getTestName(given.ServiceName)).err) =>
            (PodSearchAttempted /\ Pair(options) = Pair(given))

C16_Witness ==
    /\ TestJobResolved
    /\ TestingFind(store, getTestName(given.ServiceName)).err
    /\ store.testings # {}
    /\ Pair(given) = [ClusterID |-> OtherClusterID, Namespace |-> CallerNamespace]
    /\ HandleOpened
    /\ openArgs.namespace = CallerNamespace

-----------------------------------------------------------------------------
(* Properties of the pod search *)

\* the collaborator calls of one waitAndGetLog session, in their order
SearchSteps ==
    <<"GetClientset", "WaitUntilPodRunning", "GetKubeClient", "ListPods",
      "GetContainerLogStream", "Close">>

\* C17: one session resolves the client, waits for the pod, lists the pods and
\* opens one handle, in that order and each at most once; it opens the handle
\* only after a successful wait and a listing with at least one pod, for the
\* first pod listed, in the namespace of the request; when the listing fails
\* or is empty no handle is opened and nothing is written.
C17_PodSearchOrder ==
    /\ Len(calls) <= Len(SearchSteps)
    /\ calls = SubSeq(SearchSteps, 1, Len(calls))
    /\ Count(calls, "GetContainerLogStream") > 0 =>
        /\ podRunning
        /\ ~env.clientErr /\ ~env.waitErr /\ ~env.kubeErr /\ ~env.listErr
        /\ Len(env.pods) > 0
        /\ openArgs = [namespace |-> options.Namespace, pod |-> Head(env.pods),
                       container |-> options.SubTask]
    /\ (env.listErr \/ env.pods = <<>>) =>
        /\ Count(calls, "GetContainerLogStream") = 0
        /\ openArgs = NoArgs
        /\ pushed = <<>>

C17_Witness ==
    /\ pc = "done"
    /\ exit = "eof"
    /\ env.pods = <<"pod-a", "pod-b">>
    /\ openArgs = [namespace |-> AttachedClusterNamespace, pod |-> "pod-a",
                   container |-> TaskTestingV2]
    /\ calls = SearchSteps
    /\ pushed # <<>>

-----------------------------------------------------------------------------
(* Properties of the workflow selector *)

\* s with every underscore turned into a hyphen
Hyphenated(s) == [i \in 1..Len(s) |-> IF s[i] = "_" THEN "-" ELSE s[i]]

\* C18: the selector of getWorkflowSelector has the key s-type iff the job
\* type is not empty and the key job-name iff the job name is not empty, each
\* with its value with every underscore replaced by a hyphen, in whatever
\* order the range over the map yields the keys.
C18_SelectorKeys ==
    (fnPc = "ret" /\ fnIn.fn = "getWorkflowSelector") =>
        LET val(k) == IF k = JobLabelSTypeKey THEN fnIn.JobType ELSE fnIn.JobName IN
        /\ DOMAIN fnOut = {k \in {JobLabelSTypeKey, JobLabelNameKey} : val(k) # <<>>}
        /\ \A k \in DOMAIN fnOut : fnOut[k] = Hyphenated(val(k))

C18_Witness ==
    /\ fnPc = "ret"
    /\ fnIn.fn = "getWorkflowSelector"
    /\ fnIn.JobType = <<>>
    /\ fnIn.JobName = <<"a", "_">>
    /\ fnIn.order = <<JobLabelNameKey, JobLabelSTypeKey>>
    /\ DOMAIN fnOut = {JobLabelNameKey}
    /\ fnOut[JobLabelNameKey] = <<"a", "-">>

\* what the first job named as the sub-task alone makes of the request o
ByFirstMatch(o) ==
    LET job == FirstMatch
        named == [o EXCEPT !.JobName = job.K8sJobName, !.JobType = job.JobType]
        clusterID == IF job.Spec.ClusterID = "" THEN LocalClusterID
                     ELSE job.Spec.ClusterID
    IN  IF ~Recognized(job) THEN [options |-> named, exit |-> "unsupported"]
        ELSE IF ~job.Spec.ok THEN [options |-> named, exit |-> "badSpec"]
        ELSE [options |-> [named EXCEPT !.ClusterID = clusterID,
                                        !.Namespace = ExpectedNamespace(clusterID)],
              exit |-> "none"]

\* C19: workflow-v4 with several jobs named as the sub-task: job name, job
\* type, cluster id and namespace of the request, and whether the call aborts,
\* are those the first such job in stage order then job order gives.
C19_FirstMatchDecides ==
    (WorkflowResolved /\ Cardinality(Matches) > 1) =>
        LET first == ByFirstMatch(given) IN
        /\ options.JobName = first.options.JobName
        /\ options.JobType = first.options.JobType
        /\ Pair(options) = Pair(first.options)
        /\ (exit \in {"unsupported", "badSpec"}) = (first.exit # "none")

\* C20: the deadline of the pod wait bounds the pod wait only: a session that
\* is streaming when it elapses goes on, and the read/push loop ends only on
\* end of input, on a read error, or because the caller's context is done.
C20_DeadlineBoundsWaitOnly ==
    /\ (pc = "done" /\ HandleOpened) =>
        /\ exit \in TerminalExits
        /\ exit = "cancelled" => ctxDone
        /\ exit = "readErr" => (ctxDone \/ srcEnd = "ERR")
        /\ exit = "eof" => (srcEnd = "EOF" /\ pos = Len(source))
    /\ (pc = "done" /\ HandleOpened /\ lateExpiry /\ ~ctxDone) =>
        /\ pos = Len(source)
        /\ pushed = IF srcEnd = "EOF" THEN ExpectedLines(source)
                    ELSE TerminatedLines(source)

C20_Witness ==
    /\ pc = "done"
    /\ exit = "eof"
    /\ lateExpiry
    /\ podCtxDone
    /\ ~ctxDone
    /\ Len(pushed) = 2

-----------------------------------------------------------------------------
(* Properties of the entry points on an absent request *)

\* C21: each of the three entry points, called with an absent request, ends the
\* session normally: no crash, no metadata lookup, no pod search, nothing
\* written to the sink.
C21_NilRequestReturns ==
    (options.null /\ entry \in {"Task", "WorkflowV4", "TestJob"} /\ pc # "entry") =>
        /\ pc = "done"
        /\ exit = "nilOptions"
        /\ calls = <<>>
        /\ openArgs = NoArgs
        /\ pushed = <<>>
        /\ chanLen = 0

=============================================================================
